---- MODULE Spec2Model ----
(***************************************************************************)
(* A model of the orm application: the three tables declared in            *)
(* orm/models.py (countries, states, cities), the four request handlers of *)
(* orm/views.py and the route table of orm/urls.py.                        *)
(*                                                                         *)
(* Text that is only compared for equality (Country.name, State.name,      *)
(* City.name, template names) is a TLA+ string.  Country.sortname, which   *)
(* the store orders by, is the sequence of its character codes, so that    *)
(* "XT" is <<88, 84>> and "T" is <<84>>.  A phonecode literal such as      *)
(* "333" is the sequence of its decimal digits <<3, 3, 3>>, which the      *)
(* IntegerField converts to the integer 333 when the row is written.       *)
(***************************************************************************)
EXTENDS Integers, Sequences, FiniteSets

VARIABLES
    countries,   \* table 'countries': set of rows [id, sortname, name, phonecode]
    states,      \* table 'states': set of rows [id, name, country_id]
    cities,      \* table 'cities': set of rows [id, name, state_id]
    countries0,  \* the countries table as it was when the run began
    last,        \* the handler (or store operation) that ran last
    outcome,     \* how it ended: "rendered", or the exception that escaped
    failedAt,    \* the statement of the handler that raised, or "none"
    template,    \* the template handed to render, or "none"
    context,     \* the context handed to render by all_orm_queries
    called,      \* the handlers invoked so far
    deleted,     \* what the last delete() returned: rows removed per table
    reqs         \* requests in flight (concurrent specification only)

vars == <<countries, states, cities, countries0, last, outcome, failedAt,
          template, context, called, deleted, reqs>>

store == <<countries, states, cities>>

----------------------------------------------------------------------------
(* Bounds of the model. *)

MaxInitCountries == 6
MaxInitStates == 2
MaxInitCities == 1
MaxId == 3
NumRequests == 3

----------------------------------------------------------------------------
(* Helpers on sets and sequences. *)

Min(a, b) == IF a <= b THEN a ELSE b

MaxOf(S) == CHOOSE x \in S : \A y \in S : y <= x

Range(seq) == {seq[i] : i \in 1..Len(seq)}

\* Decimal digits to the integer they denote: int("333") = 333.
RECURSIVE ToInt(_)
ToInt(digits) ==
    IF digits = <<>> THEN 0
    ELSE 10 * ToInt(SubSeq(digits, 1, Len(digits) - 1)) + digits[Len(digits)]

\* IntegerField.get_prep_value: the value written for a phonecode literal.
PhonecodePrep(digits) == ToInt(digits)

\* String order of the store: a < b character by character, a proper prefix first.
LexLess(a, b) ==
    \E i \in 1..(Min(Len(a), Len(b)) + 1) :
        /\ \A j \in 1..(i - 1) : a[j] = b[j]
        /\ \/ i > Len(a) /\ i <= Len(b)
           \/ i <= Len(a) /\ i <= Len(b) /\ a[i] < b[i]

LexLeq(a, b) == a = b \/ LexLess(a, b)

----------------------------------------------------------------------------
(* The schema: orm/models.py. *)

\* Country: sortname and name are unique=True, id is the primary key.
CountryUnique(cs) ==
    \A r1, r2 \in cs :
        (r1.id = r2.id \/ r1.sortname = r2.sortname \/ r1.name = r2.name) => r1 = r2

\* State.country and City.state are foreign keys with a constraint in the store.
StateFK(cs, ss) == \A s \in ss : \E c \in cs : c.id = s.country_id

CityFK(ss, cis) == \A ci \in cis : \E s \in ss : s.id = ci.state_id

PkUnique(rows) == \A r1, r2 \in rows : r1.id = r2.id => r1 = r2

\* AutoField: the next primary key of a table.
NextId(rows) == IF rows = {} THEN 1 ELSE MaxOf({r.id : r \in rows}) + 1

\* The INSERT would break a unique index of 'countries'.
UniqueViolation(cs, v) ==
    \E r \in cs : r.sortname = v.sortname \/ r.name = v.name

NewCountry(cs, v) ==
    [id |-> NextId(cs), sortname |-> v.sortname, name |-> v.name,
     phonecode |-> PhonecodePrep(v.phonecode)]

\* A plausible slip: sortname and name declared without unique=True.
CreateNoUnique(cs, v) ==
    [ok |-> TRUE, countries |-> cs \cup {NewCountry(cs, v)}]

\* Country.objects.create(**v): one INSERT, refused as a whole by the unique indexes.
Create(cs, v) ==
    IF UniqueViolation(cs, v)
    THEN [ok |-> FALSE, countries |-> cs]
    ELSE [ok |-> TRUE, countries |-> cs \cup {NewCountry(cs, v)}]

----------------------------------------------------------------------------
(* The fixed values of the create-style handlers: orm/views.py. *)

CreateValues == [name |-> "Test 4", sortname |-> <<88, 84>>, phonecode |-> <<3, 3, 3>>]

UpdateValues == [name |-> "Test 1", sortname |-> <<84>>, phonecode |-> <<3, 0, 3>>]

\* A plausible slip: the delete handler given values of its own.
DeleteValuesOther == [name |-> "Test 2", sortname |-> <<84, 85>>, phonecode |-> <<3, 0, 3>>]

DeleteValues == [name |-> "Test 1", sortname |-> <<84>>, phonecode |-> <<3, 0, 3>>]

----------------------------------------------------------------------------
(* The query expressions of all_orm_queries. *)

\* A plausible slip: the ordering left out, rows in scan order.
RECURSIVE OrderBySortnameById(_)
OrderBySortnameById(S) ==
    IF S = {} THEN <<>>
    ELSE LET r == CHOOSE x \in S : \A y \in S : x.id <= y.id
         IN <<r>> \o OrderBySortnameById(S \ {r})

\* order_by('sortname'): ascending, the smallest sortname first.
RECURSIVE OrderBySortname(_)
OrderBySortname(S) ==
    IF S = {} THEN <<>>
    ELSE LET r == CHOOSE x \in S : \A y \in S : LexLeq(x.sortname, y.sortname)
         IN <<r>> \o OrderBySortname(S \ {r})

\* The table scan order of the store: rows come back by primary key.
RECURSIVE OrderByPk(_)
OrderByPk(S) ==
    IF S = {} THEN <<>>
    ELSE LET r == CHOOSE x \in S : \A y \in S : x.id <= y.id
         IN <<r>> \o OrderByPk(S \ {r})

\* order_by('-phonecode'): descending, equal phonecodes in scan order.
RECURSIVE OrderByPhonecodeDesc(_)
OrderByPhonecodeDesc(S) ==
    IF S = {} THEN <<>>
    ELSE LET r == CHOOSE x \in S : \A y \in S :
                      \/ x.phonecode > y.phonecode
                      \/ x.phonecode = y.phonecode /\ x.id <= y.id
         IN <<r>> \o OrderByPhonecodeDesc(S \ {r})

\* queryset[:n]
Limit(seq, n) == SubSeq(seq, 1, Min(n, Len(seq)))

\* distinct(): a row equal to an earlier one is dropped.
RECURSIVE Distinct(_)
Distinct(seq) ==
    IF seq = <<>> THEN <<>>
    ELSE LET init == Distinct(SubSeq(seq, 1, Len(seq) - 1))
             x == seq[Len(seq)]
         IN IF x \in Range(init) THEN init ELSE Append(init, x)

\* filter(id__range=(lo, hi)): BETWEEN, both ends included.
IdRange(S, lo, hi) == {r \in S : lo <= r.id /\ r.id <= hi}

\* values('name')
ValuesName(seq) == [i \in 1..Len(seq) |-> [name |-> seq[i].name]]

\* values('country_id').annotate(country_count=Count('country_id', distinct=True)):
\* GROUP BY country_id, COUNT(DISTINCT country_id) within each group.
CountryCount(ss) ==
    {[country_id |-> g,
      country_count |-> Cardinality({s.country_id : s \in {t \in ss : t.country_id = g}})]
        : g \in {s.country_id : s \in ss}}

all_country_asc(cs) == Limit(OrderBySortname(cs), 5)

all_country_desc(cs) == Limit(OrderByPhonecodeDesc(cs), 5)

all_country_limit(cs) == Limit(OrderByPk(cs), 5)

all_country_distinct(cs) == Limit(Distinct(OrderByPk(cs)), 5)

all_country_between(cs) == Limit(OrderByPk(IdRange(cs, 1, 50)), 5)

all_country_select(cs) == Limit(ValuesName(OrderByPk(cs)), 5)

all_country_count(ss) == CountryCount(ss)

Context(cs, ss) ==
    [all_country_asc |-> all_country_asc(cs),
     all_country_desc |-> all_country_desc(cs),
     all_country_limit |-> all_country_limit(cs),
     all_country_distinct |-> all_country_distinct(cs),
     all_country_between |-> all_country_between(cs),
     all_country_select |-> all_country_select(cs),
     all_country_count |-> all_country_count(ss)]

\* No context was handed to render.
NoContext ==
    [all_country_asc |-> <<>>, all_country_desc |-> <<>>, all_country_limit |-> <<>>,
     all_country_distinct |-> <<>>, all_country_between |-> <<>>,
     all_country_select |-> <<>>, all_country_count |-> {}]

NoDelete == [countries |-> 0, states |-> 0, cities |-> 0]

----------------------------------------------------------------------------
(* The statements of the handlers after the INSERT. *)

\* A plausible slip repaired: the instance given a query attribute.
CountryAttributesWithQuery ==
    {"id", "sortname", "name", "phonecode", "pk", "states", "query"}

\* What a Country instance answers to: its fields, pk and the reverse
\* accessor of State.country (related_name='states').
CountryAttributes == {"id", "sortname", "name", "phonecode", "pk", "states"}

\* render(request, template_name, context=None): template_name is required.
RenderAccepts(nargs) == nargs >= 2

\* A plausible change: the request wrapped in a transaction, rolled back on failure.
InsertCreateRunAtomic(cs) ==
    LET res == Create(cs, CreateValues)
    IN  IF ~res.ok
        THEN [countries |-> cs, outcome |-> "IntegrityError", failedAt |-> "create",
              template |-> "none"]
        ELSE IF "query" \notin CountryAttributes
        THEN [countries |-> cs, outcome |-> "AttributeError",
              failedAt |-> "print", template |-> "none"]
        ELSE [countries |-> cs, outcome |-> "TypeError",
              failedAt |-> "render", template |-> "none"]

\* insert_create_queries, statement by statement: create, print(record_one.query),
\* render(request).  Each INSERT is committed as it is made.
InsertCreateRun(cs) ==
    LET res == Create(cs, CreateValues)
    IN  IF ~res.ok
        THEN [countries |-> cs, outcome |-> "IntegrityError", failedAt |-> "create",
              template |-> "none"]
        ELSE IF "query" \notin CountryAttributes
        THEN [countries |-> res.countries, outcome |-> "AttributeError",
              failedAt |-> "print", template |-> "none"]
        ELSE IF ~RenderAccepts(1)
        THEN [countries |-> res.countries, outcome |-> "TypeError",
              failedAt |-> "render", template |-> "none"]
        ELSE [countries |-> res.countries, outcome |-> "rendered",
              failedAt |-> "none", template |-> "none"]

\* update_queries and delete_queries: create, then render(request, template).
CreateAndRender(cs, v, tpl) ==
    LET res == Create(cs, v)
    IN  IF ~res.ok
        THEN [countries |-> cs, outcome |-> "IntegrityError", failedAt |-> "create",
              template |-> "none"]
        ELSE IF ~RenderAccepts(2)
        THEN [countries |-> res.countries, outcome |-> "TypeError",
              failedAt |-> "render", template |-> "none"]
        ELSE [countries |-> res.countries, outcome |-> "rendered",
              failedAt |-> "none", template |-> tpl]

----------------------------------------------------------------------------
(* The rows a run may begin with. *)

CountryPool ==
    {[id |-> 1, sortname |-> <<73, 78>>, name |-> "India", phonecode |-> 91],
     [id |-> 2, sortname |-> <<85, 83>>, name |-> "United States", phonecode |-> 1],
     [id |-> 3, sortname |-> <<65, 85>>, name |-> "Australia", phonecode |-> 61],
     [id |-> 51, sortname |-> <<65>>, name |-> "Austria", phonecode |-> 43],
     [id |-> 5, sortname |-> <<88, 84>>, name |-> "Extra", phonecode |-> 1],
     [id |-> 6, sortname |-> <<90, 90>>, name |-> "Test 4", phonecode |-> 5],
     [id |-> 7, sortname |-> <<84>>, name |-> "Test 1", phonecode |-> 303]}

StatePool ==
    {[id |-> 1, name |-> "Kerala", country_id |-> 1],
     [id |-> 2, name |-> "Goa", country_id |-> 1],
     [id |-> 3, name |-> "Texas", country_id |-> 2]}

CityPool ==
    {[id |-> 1, name |-> "Kochi", state_id |-> 1],
     [id |-> 2, name |-> "Austin", state_id |-> 3]}

\* A store the schema admits: keys unique, every reference resolved.
ValidStore(cs, ss, cis) ==
    /\ CountryUnique(cs)
    /\ PkUnique(ss) /\ StateFK(cs, ss)
    /\ PkUnique(cis) /\ CityFK(ss, cis)

InitRequest ==
    /\ countries0 = countries
    /\ last = "none"
    /\ outcome = "none"
    /\ failedAt = "none"
    /\ template = "none"
    /\ context = NoContext
    /\ called = {}
    /\ deleted = NoDelete

Init ==
    /\ countries \in {cs \in SUBSET CountryPool : Cardinality(cs) <= MaxInitCountries}
    /\ states \in {ss \in SUBSET StatePool : Cardinality(ss) <= MaxInitStates}
    /\ cities \in {cis \in SUBSET CityPool : Cardinality(cis) <= MaxInitCities}
    /\ ValidStore(countries, states, cities)
    /\ InitRequest
    /\ reqs = <<>>

----------------------------------------------------------------------------
(* The four handlers of orm/views.py, one request at a time. *)

\* A plausible slip: a read that writes (get_or_create in place of a query).
all_orm_queries_writing ==
    /\ countries' = Create(countries, DeleteValuesOther).countries
    /\ UNCHANGED <<states, cities, countries0, deleted, reqs>>
    /\ last' = "all_orm_queries"
    /\ outcome' = "rendered"
    /\ failedAt' = "none"
    /\ template' = "orm_queries.html"
    /\ context' = Context(countries', states)
    /\ called' = called \cup {"all_orm_queries"}

all_orm_queries ==
    /\ UNCHANGED <<countries, states, cities, countries0, deleted, reqs>>
    /\ last' = "all_orm_queries"
    /\ outcome' = "rendered"
    /\ failedAt' = "none"
    /\ template' = "orm_queries.html"
    /\ context' = Context(countries, states)
    /\ called' = called \cup {"all_orm_queries"}

\* The effect of a create-style handler whose run is r.
Respond(h, r) ==
    /\ countries' = r.countries
    /\ UNCHANGED <<states, cities, countries0, deleted, reqs>>
    /\ last' = h
    /\ outcome' = r.outcome
    /\ failedAt' = r.failedAt
    /\ template' = r.template
    /\ context' = NoContext
    /\ called' = called \cup {h}

insert_create_queries == Respond("insert_create_queries", InsertCreateRun(countries))

update_queries ==
    Respond("update_queries",
            CreateAndRender(countries, UpdateValues, "insert_create_queries.html"))

\* A plausible slip repaired: the delete handler deleting the row.
delete_queries_deleting ==
    /\ countries' = {r \in countries : r.name # DeleteValues.name}
    /\ UNCHANGED <<states, cities, countries0, deleted, reqs>>
    /\ last' = "delete_queries"
    /\ outcome' = "rendered"
    /\ failedAt' = "none"
    /\ template' = "insert_create_queries.html"
    /\ context' = NoContext
    /\ called' = called \cup {"delete_queries"}

delete_queries ==
    Respond("delete_queries",
            CreateAndRender(countries, DeleteValues, "insert_create_queries.html"))

\* urlpatterns: each path is routed to its handler.
Next ==
    \/ all_orm_queries
    \/ insert_create_queries
    \/ update_queries
    \/ delete_queries

Spec == Init /\ [][Next]_vars

----------------------------------------------------------------------------
(* Properties of the handlers, one request at a time (Spec). *)

CreateStyle == {"insert_create_queries", "update_queries", "delete_queries"}

SameValuesHandlers == {"update_queries", "delete_queries"}

\* The rows of cs that carry the name, and those that carry the sortname, of v.
Named(cs, v) == {r \in cs : r.name = v.name}

Coded(cs, v) == {r \in cs : r.sortname = v.sortname}

\* cs2 is cs with exactly one new row, which holds the values v as stored.
AddsRow(cs, cs2, v, code) ==
    /\ cs \subseteq cs2
    /\ Cardinality(cs2) = Cardinality(cs) + 1
    /\ \A r \in cs2 \ cs :
           r.name = v.name /\ r.sortname = v.sortname /\ r.phonecode = code

\* C1: from a store without a "Test 4" or "XT" row, the create of
\* insert_create_queries succeeds exactly once: the first call adds exactly one
\* Country row, every later call fails with a uniqueness violation and adds
\* none, and at no time do two rows carry the name "Test 4" or the sortname "XT".
C1_CreateSucceedsOnce ==
    [][~UniqueViolation(countries0, CreateValues) =>
          /\ Cardinality(Named(countries', CreateValues)) <= 1
          /\ Cardinality(Coded(countries', CreateValues)) <= 1
          /\ last' = "insert_create_queries" =>
                IF "insert_create_queries" \notin called
                THEN AddsRow(countries, countries', CreateValues, 333)
                ELSE /\ outcome' = "IntegrityError"
                     /\ failedAt' = "create"
                     /\ countries' = countries]_vars

\* A second call has been refused after the first one inserted the row.
C1_Witness ==
    /\ ~UniqueViolation(countries0, CreateValues)
    /\ last = "insert_create_queries"
    /\ outcome = "IntegrityError"
    /\ Cardinality(Named(countries, CreateValues)) = 1

\* C2 as stated: every invocation of insert_create_queries fails, and fails at
\* the render call, never at an earlier statement.
C2_FailsAtRender ==
    last = "insert_create_queries" => outcome # "rendered" /\ failedAt = "render"

\* C2 amended: every invocation of insert_create_queries fails, and never at the
\* render call: with a conflicting row in the store the create raises the
\* uniqueness violation, otherwise the row is inserted and print(record_one.query)
\* raises AttributeError.
C2_FailsBeforeRender ==
    [][last' = "insert_create_queries" =>
          /\ outcome' # "rendered"
          /\ failedAt' # "render"
          /\ IF UniqueViolation(countries, CreateValues)
             THEN failedAt' = "create" /\ outcome' = "IntegrityError"
             ELSE failedAt' = "print" /\ outcome' = "AttributeError"]_vars

\* The handler has inserted its row and failed at the print statement.
C2_Witness ==
    /\ last = "insert_create_queries"
    /\ failedAt = "print"
    /\ Named(countries, CreateValues) # {}

\* C3: the aggregate of all_orm_queries holds exactly one row per country_id
\* present in the States table, and its country_count is the number of State
\* rows that reference that country.
C3_CountPerCountry ==
    last = "all_orm_queries" =>
        /\ {row.country_id : row \in context.all_country_count}
              = {s.country_id : s \in states}
        /\ \A r1, r2 \in context.all_country_count :
              r1.country_id = r2.country_id => r1 = r2
        /\ \A row \in context.all_country_count :
              row.country_count
                = Cardinality({s \in states : s.country_id = row.country_id})

\* C5: all_country_asc holds min(5, number of Country rows) rows of the table,
\* in ascending order of sortname, and no row left out has a sortname smaller
\* than a row returned.
C5_AscFirstFive ==
    last = "all_orm_queries" =>
        LET res == context.all_country_asc
        IN  /\ Len(res) = Min(5, Cardinality(countries))
            /\ Range(res) \subseteq countries
            /\ Cardinality(Range(res)) = Len(res)
            /\ \A i, j \in 1..Len(res) :
                  i < j => LexLeq(res[i].sortname, res[j].sortname)
            /\ \A r \in countries \ Range(res) : \A x \in Range(res) :
                  ~LexLess(r.sortname, x.sortname)

\* More than five rows, a one-character sortname among those returned.
C5_Witness ==
    /\ last = "all_orm_queries"
    /\ Cardinality(countries) > 5
    /\ Len(context.all_country_asc) = 5
    /\ \E i \in 1..5 : Len(context.all_country_asc[i].sortname) = 1

\* C6: an invocation of all_orm_queries leaves the three tables as they were
\* and renders; on an empty store the seven collections are empty.
C6_ReadsOnly ==
    [][last' = "all_orm_queries" =>
          /\ store' = store
          /\ outcome' = "rendered"
          /\ store = <<{}, {}, {}>> => context' = NoContext]_vars

\* The list view has rendered on an empty store.
C6_Witness ==
    /\ last = "all_orm_queries"
    /\ store = <<{}, {}, {}>>
    /\ outcome = "rendered"
    /\ context.all_country_asc = <<>>
    /\ context.all_country_count = {}

\* C7: no handler removes or changes a row: every Country, State and City row
\* is still there, with the same fields, after every invocation.
C7_NothingRemoved ==
    [][/\ countries \subseteq countries'
       /\ states \subseteq states'
       /\ cities \subseteq cities']_vars

\* The "update" and "delete" handlers have both run on a populated store.
C7_Witness ==
    /\ last = "delete_queries"
    /\ "update_queries" \in called
    /\ countries0 # {} /\ countries0 \subseteq countries
    /\ states # {} /\ cities # {}

\* C8: update_queries and delete_queries insert the same values; only the first
\* invocation of either inserts a row and renders insert_create_queries.html,
\* every later invocation of either fails with the uniqueness violation, renders
\* nothing and leaves the store as it was.
C8_OnlyFirstInserts ==
    [][last' \in SameValuesHandlers =>
          /\ UpdateValues = DeleteValues
          /\ IF called \cap SameValuesHandlers # {}
             THEN /\ outcome' = "IntegrityError"
                  /\ template' = "none"
                  /\ store' = store
             ELSE ~UniqueViolation(countries, UpdateValues) =>
                  /\ AddsRow(countries, countries', UpdateValues, 303)
                  /\ outcome' = "rendered"
                  /\ template' = "insert_create_queries.html"]_vars

\* delete_queries has been refused after update_queries inserted the row.
C8_Witness ==
    /\ last = "delete_queries"
    /\ outcome = "IntegrityError"
    /\ "update_queries" \in called
    /\ Named(countries, UpdateValues) \ countries0 # {}

\* C10: the first invocation of insert_create_queries on a store without a
\* conflicting row fails and yet leaves the row ("Test 4", "XT", 333) in the
\* store; from the second invocation on the failed request changes nothing.
C10_FailedRequestPersists ==
    [][last' = "insert_create_queries" =>
          /\ outcome' # "rendered"
          /\ states' = states /\ cities' = cities
          /\ ("insert_create_queries" \notin called
                 /\ ~UniqueViolation(countries, CreateValues)) =>
                AddsRow(countries, countries', CreateValues, 333)
          /\ "insert_create_queries" \in called => countries' = countries]_vars

\* The request failed and the store holds one row more than before it.
C10_Witness ==
    /\ last = "insert_create_queries"
    /\ outcome = "AttributeError"
    /\ Named(countries, CreateValues) \ countries0 # {}

----------------------------------------------------------------------------
(* The store under inserts and deletes (SpecStore): the operations the      *)
(* schema of orm/models.py gives every table, with the cascades it declares. *)

StateNames == {"Goa"}

CityNames == {"Panaji"}

\* State.country, on_delete=CASCADE: the states that go with the countries cids.
CascadeStates(ss, cids) == {s \in ss : s.country_id \in cids}

\* A plausible slip: City.state declared on_delete=DO_NOTHING.
CascadeCitiesNone(cis, sids) == {}

\* City.state, on_delete=CASCADE: the cities that go with the states sids.
CascadeCities(cis, sids) == {ci \in cis : ci.state_id \in sids}

InitStore ==
    /\ countries = {}
    /\ states = {}
    /\ cities = {}
    /\ InitRequest
    /\ reqs = <<>>

\* What a store operation leaves of the request bookkeeping.
StoreOp(op, result) ==
    /\ last' = op
    /\ outcome' = result
    /\ UNCHANGED <<countries0, failedAt, template, context, called, reqs>>

\* Country.objects.create(**v)
CountryCreate(v) ==
    /\ NextId(countries) <= MaxId
    /\ LET res == Create(countries, v)
       IN  /\ countries' = res.countries
           /\ StoreOp("Country.create", IF res.ok THEN "ok" ELSE "IntegrityError")
    /\ deleted' = NoDelete
    /\ UNCHANGED <<states, cities>>

\* State.objects.create(name=n, country_id=cid)
StateCreate(n, cid) ==
    /\ NextId(states) <= MaxId
    /\ IF \E c \in countries : c.id = cid
       THEN /\ states' = states \cup {[id |-> NextId(states), name |-> n, country_id |-> cid]}
            /\ StoreOp("State.create", "ok")
       ELSE /\ states' = states
            /\ StoreOp("State.create", "IntegrityError")
    /\ deleted' = NoDelete
    /\ UNCHANGED <<countries, cities>>

\* City.objects.create(name=n, state_id=sid)
CityCreate(n, sid) ==
    /\ NextId(cities) <= MaxId
    /\ IF \E s \in states : s.id = sid
       THEN /\ cities' = cities \cup {[id |-> NextId(cities), name |-> n, state_id |-> sid]}
            /\ StoreOp("City.create", "ok")
       ELSE /\ cities' = cities
            /\ StoreOp("City.create", "IntegrityError")
    /\ deleted' = NoDelete
    /\ UNCHANGED <<countries>>
    /\ UNCHANGED <<states>>

\* c.delete() on a Country: its states and their cities go with it.
CountryDelete(c) ==
    LET ss == CascadeStates(states, {c.id})
        cis == CascadeCities(cities, {s.id : s \in ss})
    IN  /\ countries' = countries \ {c}
        /\ states' = states \ ss
        /\ cities' = cities \ cis
        /\ deleted' = [countries |-> 1, states |-> Cardinality(ss),
                       cities |-> Cardinality(cis)]
        /\ StoreOp("Country.delete", "ok")

\* s.delete() on a State: its cities go with it.
StateDelete(s) ==
    LET cis == CascadeCities(cities, {s.id})
    IN  /\ states' = states \ {s}
        /\ cities' = cities \ cis
        /\ deleted' = [countries |-> 0, states |-> 1, cities |-> Cardinality(cis)]
        /\ StoreOp("State.delete", "ok")
        /\ UNCHANGED countries

\* ci.delete() on a City.
CityDelete(ci) ==
    /\ cities' = cities \ {ci}
    /\ deleted' = [countries |-> 0, states |-> 0, cities |-> 1]
    /\ StoreOp("City.delete", "ok")
    /\ UNCHANGED <<countries, states>>

NextStore ==
    \/ \E v \in {CreateValues, UpdateValues} : CountryCreate(v)
    \/ \E n \in StateNames : \E cid \in 1..MaxId : StateCreate(n, cid)
    \/ \E n \in CityNames : \E sid \in 1..MaxId : CityCreate(n, sid)
    \/ \E c \in countries : CountryDelete(c)
    \/ \E s \in states : StateDelete(s)
    \/ \E ci \in cities : CityDelete(ci)

SpecStore == InitStore /\ [][NextStore]_vars

\* C4: deleting a Country removes exactly the States that reference it and the
\* Cities that reference those States and leaves every other row as it was; so
\* after every insert and delete each State references an existing Country and
\* each City an existing State.
C4_CascadeDelete ==
    [][/\ StateFK(countries', states')
       /\ CityFK(states', cities')
       /\ last' = "Country.delete" =>
             LET gone == {c.id : c \in countries \ countries'}
                 keptStates == {s \in states : s.country_id \notin gone}
             IN  /\ countries' \subseteq countries
                 /\ Cardinality(gone) = 1
                 /\ states' = keptStates
                 /\ cities' = {ci \in cities :
                                  \E s \in keptStates : s.id = ci.state_id}]_vars

\* A Country went with a State and a City of its own, another one's rows stayed.
C4_Witness ==
    /\ last = "Country.delete"
    /\ deleted.states >= 1
    /\ deleted.cities >= 1
    /\ countries # {} /\ states # {} /\ cities # {}

----------------------------------------------------------------------------
(* Requests served concurrently (SpecConc): each handler runs statement by  *)
(* statement, the store takes one INSERT at a time.                         *)

Requests == 1..NumRequests

\* The values a create-style handler inserts.
ValuesOf(h) ==
    CASE h = "insert_create_queries" -> CreateValues
      [] h = "update_queries" -> UpdateValues
      [] h = "delete_queries" -> DeleteValues

\* The number of arguments the handler gives render.
RenderArgs(h) == IF h = "insert_create_queries" THEN 1 ELSE 2

Idle == [handler |-> "none", pc |-> "idle", outcome |-> "none", inserted |-> FALSE]

InitialConcStores == {{}} \cup {{r} : r \in CountryPool}

InitConc ==
    /\ countries \in InitialConcStores
    /\ states = {}
    /\ cities = {}
    /\ InitRequest
    /\ reqs = [r \in Requests |-> Idle]

ConcFrame ==
    UNCHANGED <<states, cities, countries0, last, outcome, failedAt, template,
                context, called, deleted>>

\* urlpatterns: a request arrives and is routed to its handler.
Dispatch(r, h) ==
    /\ reqs[r].pc = "idle"
    /\ reqs' = [reqs EXCEPT ![r] = [@ EXCEPT !.handler = h, !.pc = "create"]]
    /\ UNCHANGED countries
    /\ ConcFrame

\* A plausible slip: the INSERT made with no unique index behind it.
StepCreateUnchecked(r) ==
    /\ reqs[r].pc = "create"
    /\ countries' = countries \cup {NewCountry(countries, ValuesOf(reqs[r].handler))}
    /\ reqs' = [reqs EXCEPT ![r] = [@ EXCEPT !.inserted = TRUE, !.pc = "render"]]
    /\ ConcFrame

\* record_one = Country.objects.create(...)
StepCreate(r) ==
    /\ reqs[r].pc = "create"
    /\ LET h == reqs[r].handler
           res == Create(countries, ValuesOf(h))
       IN  /\ countries' = res.countries
           /\ reqs' = [reqs EXCEPT ![r] =
                  IF res.ok
                  THEN [@ EXCEPT !.inserted = TRUE,
                                 !.pc = IF h = "insert_create_queries"
                                        THEN "print" ELSE "render"]
                  ELSE [@ EXCEPT !.pc = "failed", !.outcome = "IntegrityError"]]
    /\ ConcFrame

\* print(record_one.query)
StepPrint(r) ==
    /\ reqs[r].pc = "print"
    /\ reqs' = [reqs EXCEPT ![r] =
           IF "query" \in CountryAttributes
           THEN [@ EXCEPT !.pc = "render"]
           ELSE [@ EXCEPT !.pc = "failed", !.outcome = "AttributeError"]]
    /\ UNCHANGED countries
    /\ ConcFrame

\* return render(request, ...)
StepRender(r) ==
    /\ reqs[r].pc = "render"
    /\ reqs' = [reqs EXCEPT ![r] =
           IF RenderAccepts(RenderArgs(reqs[r].handler))
           THEN [@ EXCEPT !.pc = "done", !.outcome = "rendered"]
           ELSE [@ EXCEPT !.pc = "failed", !.outcome = "TypeError"]]
    /\ UNCHANGED countries
    /\ ConcFrame

NextConc ==
    \E r \in Requests :
        \/ \E h \in CreateStyle : Dispatch(r, h)
        \/ StepCreate(r)
        \/ StepPrint(r)
        \/ StepRender(r)

SpecConc == InitConc /\ [][NextConc]_vars

Ended(r) == reqs[r].pc \in {"done", "failed"}

\* C9: however the requests interleave, of those that insert the same values at
\* most one inserts a row, every other one that has ended has ended in the
\* uniqueness violation, and no two Country rows share a name or a sortname.
C9_OneWinner ==
    /\ \A r1, r2 \in countries :
          (r1.name = r2.name \/ r1.sortname = r2.sortname) => r1 = r2
    /\ \A r1, r2 \in Requests :
          (/\ reqs[r1].inserted /\ reqs[r2].inserted
           /\ ValuesOf(reqs[r1].handler) = ValuesOf(reqs[r2].handler)) => r1 = r2
    /\ \A r \in Requests :
          (Ended(r) /\ ~reqs[r].inserted) => reqs[r].outcome = "IntegrityError"

\* update_queries and delete_queries were both in flight before either
\* inserted: one has rendered, the other has been refused.
C9_Witness ==
    \E r1, r2 \in Requests :
        /\ reqs[r1].handler = "update_queries"
        /\ reqs[r2].handler = "delete_queries"
        /\ reqs[r1].inserted /\ reqs[r1].outcome = "rendered"
        /\ reqs[r2].outcome = "IntegrityError"

====
